---------------------------- MODULE Spec2Model ----------------------------
(***************************************************************************)
(* st_meshview: the grid-to-polygon construction (pkg/model.py,            *)
(* Meshs.__init__ / Meshs.set_gdf) and the archive exporters               *)
(* (Meshs.zip_plot, Meshs.zip_map, Meshs.zip_gis), and the three-step      *)
(* Streamlit application around them (meshview.py).                        *)
(*                                                                         *)
(* A point table (pandas DataFrame) is a sequence of rows                  *)
(* [I, J, X, Y, V]; V is the column named by col_v.  A coordinate pair is  *)
(* the record [x, y]; the pair of NaN that DataFrame.shift fills in past   *)
(* the end of the table is the record NaNPt.  Python's None is the empty   *)
(* tuple, an int n that may be None is <<n>>.                              *)
(***************************************************************************)
EXTENDS Integers, Sequences, FiniteSets, TLC

VARIABLES
    df,         \* the caller's point table, the argument of Meshs(df, col_v, epsg)
    col_v,      \* Meshs.col_v, the attribute column's name
    epsg,       \* Meshs.epsg: None or <<code>>
    status,     \* "new" before the constructor ran, then "ok" or the exception's name
    gdf,        \* Meshs.gdf: the sequence of cells [I, J, V, geometry]
    pc,         \* position inside the running export call ("idle" between calls)
    call,       \* the running export call: [op, ext, driver]
    tmpdir,     \* the directory tempfile.TemporaryDirectory() gave this call
    dirs,       \* the temporary directories that exist in the file system
    files,      \* the files that exist: [dir, stem, ext, data]
    archive,    \* zf / in_memory: the entries written so far, [name, data]
    pending,    \* zip_gis: the glob result still to be added to the archive
    exc,        \* the exception propagating out of the call, or None
    delivered,  \* warnings of this call that reached the caller
    suppressed, \* warnings of this call that catch_warnings swallowed
    ncalls,     \* export calls made so far
    ref,        \* an earlier export call that returned, kept with its archive
    ss,         \* st.session_state: the keys the application wrote, with their values
    live,       \* the groups of widgets on the page that the user can operate
    upload_ok,  \* is_correct_ij of the run that drew the upload tab's confirm button
    rpc,        \* position of the script run ("done": no run in progress)
    dummy_v,    \* step 3: the dummy value of this run, None or <<v>>
    range_v,    \* step 3: the display range of this run, None or <<min_v, max_v>>
    built_here, \* this run has constructed the Meshs object that df .. gdf describe
    exported,   \* the export call this run made last ({}: none so far)
    nedits      \* cells edited in the data editor so far

vars == <<df, col_v, epsg, status, gdf, pc, call, tmpdir, dirs, files,
          archive, pending, exc, delivered, suppressed, ncalls, ref,
          ss, live, upload_ok, rpc, dummy_v, range_v, built_here, exported,
          nedits>>

buildVars == <<df, col_v, epsg, status, gdf>>
exportVars == <<pc, call, tmpdir, dirs, files, archive, pending, exc,
                delivered, suppressed, ncalls, ref>>

appVars == <<ss, live, upload_ok, rpc, dummy_v, range_v, built_here, exported,
             nedits>>

None == <<>>

(***************************************************************************)
(* Bounds of the model.                                                    *)
(***************************************************************************)
MaxCnt == 3      \* grids have up to MaxCnt points in each direction
MaxCalls == 3    \* export calls per Meshs object
MaxEdits == 1    \* cells edited in the data editor per session

(***************************************************************************)
(* Coordinates.                                                            *)
(***************************************************************************)
Pt(x, y) == [x |-> x, y |-> y]
NaNPt == [nan |-> TRUE]

(***************************************************************************)
(* Meshs.set_gdf, line by line.                                            *)
(***************************************************************************)
SetMax(S) == CHOOSE m \in S : \A n \in S : n <= m
SetMin(S) == CHOOSE m \in S : \A n \in S : m <= n

\* df[col].nunique()
Nunique_J(t) == Cardinality({t[k].J : k \in 1..Len(t)})

\* df[col].max(); the maximum of an empty column is NaN
Max_I(t) == IF t = <<>> THEN None ELSE <<SetMax({t[k].I : k \in 1..Len(t)})>>
Max_J(t) == IF t = <<>> THEN None ELSE <<SetMax({t[k].J : k \in 1..Len(t)})>>

\* the order of df.sort_values([col_i, col_j]): I first, then J
\* (faulty variant BeforeByI: sorted by col_i alone)
BeforeByI(a, b) == a.I < b.I
Before(a, b) == a.I < b.I \/ (a.I = b.I /\ a.J < b.J)

RECURSIVE InsertSorted(_, _)
InsertSorted(s, r) ==
    IF s = <<>> THEN <<r>>
    ELSE IF Before(r, s[Len(s)])
         THEN Append(InsertSorted(SubSeq(s, 1, Len(s) - 1), r), s[Len(s)])
         ELSE Append(s, r)

\* df.sort_values([col_i, col_j]): a new table, rows with equal keys keep
\* their order (pandas sorts several columns with a stable lexsort)
RECURSIVE SortValues(_)
SortValues(t) ==
    IF t = <<>> THEN <<>>
    ELSE InsertSorted(SortValues(SubSeq(t, 1, Len(t) - 1)), t[Len(t)])

\* df.loc[:, [col_x, col_y]].shift(-n): row k gets the X, Y of row k+n,
\* NaN where k+n is past the end
Shift(t, n) ==
    [k \in 1..Len(t) |->
        IF k + n <= Len(t) THEN Pt(t[k + n].X, t[k + n].Y) ELSE NaNPt]

\* the three shifted column pairs added at lines 131-133
OffsetPt2(cnt_j) == 1
\* (faulty variant: the diagonal neighbour taken at the offset of the +I one)
OffsetPt3SameJ(cnt_j) == cnt_j
OffsetPt3(cnt_j) == cnt_j + 1
OffsetPt4(cnt_j) == cnt_j

WithNeighbours(t, cnt_j) ==
    LET pt2 == Shift(t, OffsetPt2(cnt_j))
        pt3 == Shift(t, OffsetPt3(cnt_j))
        pt4 == Shift(t, OffsetPt4(cnt_j))
    IN  [k \in 1..Len(t) |->
            [I |-> t[k].I, J |-> t[k].J, X |-> t[k].X, Y |-> t[k].Y,
             V |-> t[k].V, pt2 |-> pt2[k], pt3 |-> pt3[k], pt4 |-> pt4[k]]]

\* the row mask of line 135 (a comparison with NaN is always "not equal")
\* (faulty variant KeepEither: the two conditions joined by | instead of &)
KeepEither(row, max_i, max_j) == <<row.I>> # max_i \/ <<row.J>> # max_j
Keep(row, max_i, max_j) == <<row.I>> # max_i /\ <<row.J>> # max_j

\* getpolygon(row): Polygon([(x1, y1), (x2, y2), (x3, y3), (x4, y4)])
getpolygon(row) == <<Pt(row.X, row.Y), row.pt2, row.pt3, row.pt4>>

\* the value column carried into the cell (line 147: df[[col_i, col_j, col_v, 'geometry']])
\* (faulty variant CellNextValue: the value of the +J neighbour)
CellNextValue(rows, k) == IF k < Len(rows) THEN rows[k + 1].V ELSE rows[k].V
CellValue(rows, k) == rows[k].V

\* the order the rows are in when the neighbours are attached (line 130)
\* (faulty variant Unsorted: the result of sort_values dropped)
Unsorted(t) == t
Sorted(t) == SortValues(t)

\* lines 127-147 for a table that keeps at least one row
Cells(t) ==
    LET cnt_j == Nunique_J(t)
        max_i == Max_I(t)
        max_j == Max_J(t)
        rows  == WithNeighbours(Sorted(t), cnt_j)
        kept  == SelectSeq([k \in 1..Len(rows) |-> k],
                           LAMBDA k : Keep(rows[k], max_i, max_j))
    IN  [n \in 1..Len(kept) |->
            [I |-> rows[kept[n]].I, J |-> rows[kept[n]].J,
             V |-> CellValue(rows, kept[n]),
             geometry |-> getpolygon(rows[kept[n]])]]

(***************************************************************************)
(* Meshs.__init__ runs set_gdf.  When the mask keeps no row, df.apply      *)
(* (line 145) is applied to an empty frame; what pandas returns then, and  *)
(* whether assigning it to the column 'geometry' raises ValueError,        *)
(* depends on the pandas release, so both outcomes are possible.           *)
(* set_gdf raises no exception of its own.                                 *)
(*                                                                         *)
(* gpd.GeoDataFrame(df, crs=self.epsg) (line 148) hands the code to pyproj *)
(* when the frame is constructed: a code that pyproj's database does not   *)
(* hold raises CRSError there, and self.gdf is never assigned.             *)
(***************************************************************************)
\* the EPSG codes pyproj resolves, among the codes of the model
KnownEpsg == {4326, 6677}
\* CRS.from_epsg(code) succeeds
Resolves(code) == code \in KnownEpsg

\* line 148: does constructing the GeoDataFrame with crs=e raise CRSError?
\* (faulty variant CrsErrorDeferred: the code is stored unresolved)
CrsErrorDeferred(e) == FALSE
CrsError(e) == e # None /\ ~Resolves(e[1])

\* the caller's table after set_gdf: line 130 binds the local name df to
\* the new frame sort_values returns, and lines 131-147 write to that frame
\* (faulty variant CallerFrameSortedInPlace: sort_values(inplace=True))
CallerFrameSortedInPlace(t) == WithNeighbours(Sorted(t), Nunique_J(t))
CallerFrameAfter(t) == t

set_gdf(emptyApplyRaises) ==
    /\ status = "new"
    /\ LET cells == Cells(df)
       IN  IF cells = <<>> /\ emptyApplyRaises
           THEN /\ status' = "ValueError"
                /\ gdf' = None
           ELSE IF CrsError(epsg)
           THEN /\ status' = "CRSError"
                /\ gdf' = None
           ELSE /\ status' = "ok"
                /\ gdf' = cells
    /\ df' = CallerFrameAfter(df)
    /\ UNCHANGED <<col_v, epsg>>
    /\ UNCHANGED exportVars
    /\ UNCHANGED appVars

Build == \E emptyApplyRaises \in BOOLEAN : set_gdf(emptyApplyRaises)

(***************************************************************************)
(* The point tables handed to the constructor.  GridRows is the table the  *)
(* application generates for a cnt_i x cnt_j grid starting at ij_start     *)
(* (meshview.py, df_manual), filled with coordinates and values; an        *)
(* caller of Meshs may pass the same rows in any order.                    *)
(***************************************************************************)
CoordKinds == {"unit", "skew"}
ValueKinds == {"sum", "index", "flat"}

XOf(ck, i, j) == IF ck = "unit" THEN i ELSE 2 * i + j
YOf(ck, i, j) == IF ck = "unit" THEN j ELSE j - i
VOf(vk, i, j) == CASE vk = "sum" -> i + j
                   [] vk = "index" -> 10 * i + j
                   [] OTHER -> 0

GridRows(cnt_i, cnt_j, ij_start, ck, vk) ==
    [k \in 1..(cnt_i * cnt_j) |->
        LET i == ij_start + ((k - 1) \div cnt_j)
            j == ij_start + ((k - 1) % cnt_j)
        IN  [I |-> i, J |-> j, X |-> XOf(ck, i, j), Y |-> YOf(ck, i, j),
             V |-> VOf(vk, i, j)]]

\* the same rows, column by column (J first)
ColumnMajor(t, cnt_i, cnt_j) ==
    [k \in 1..Len(t) |-> t[((k - 1) % cnt_i) * cnt_j + ((k - 1) \div cnt_i) + 1]]
Rotate(t, r) == [k \in 1..Len(t) |-> t[((k - 1 + r) % Len(t)) + 1]]
Reverse(t) == [k \in 1..Len(t) |-> t[Len(t) + 1 - k]]

Reorder(t, cnt_i, cnt_j, colMajor, r, rev) ==
    LET a == IF colMajor THEN ColumnMajor(t, cnt_i, cnt_j) ELSE t
        b == Rotate(a, r)
    IN  IF rev THEN Reverse(b) ELSE b

\* defects of a table: one row missing, one row twice
RemoveAt(t, k) == SubSeq(t, 1, k - 1) \o SubSeq(t, k + 1, Len(t))
DupAt(t, k) == Append(t, t[k])
Defects == {"none", "missing", "duplicate"}
WithDefect(t, d, k) ==
    CASE d = "missing" -> RemoveAt(t, k)
      [] d = "duplicate" -> DupAt(t, k)
      [] OTHER -> t

\* epsg arguments: None, a code pyproj resolves, a code it does not
Epsgs == {None, <<6677>>}
BuildEpsgs == Epsgs \cup {<<999999999>>}

ExportIdle ==
    /\ pc = "idle"
    /\ call = None
    /\ tmpdir = None
    /\ dirs = {}
    /\ files = {}
    /\ archive = {}
    /\ pending = {}
    /\ exc = None
    /\ delivered = {}
    /\ suppressed = {}
    /\ ncalls = 0
    /\ ref = None

\* the application is not running: Meshs is used as a library
AppIdle ==
    /\ ss = <<>>
    /\ live = {}
    /\ upload_ok = FALSE
    /\ rpc = "done"
    /\ dummy_v = None
    /\ range_v = None
    /\ built_here = FALSE
    /\ exported = {}
    /\ nedits = 0

\* every table of the bounded family, before the constructor runs
InitBuild ==
    /\ \E cnt_i \in 1..MaxCnt, cnt_j \in 1..MaxCnt, ij_start \in {0, 1},
          ck \in CoordKinds, vk \in ValueKinds,
          colMajor \in BOOLEAN, rev \in BOOLEAN, d \in Defects :
        \E r \in 0..(cnt_i * cnt_j - 1), k \in 1..(cnt_i * cnt_j) :
            /\ (d = "none") => (k = 1)
            /\ (colMajor /\ (cnt_i = 1 \/ cnt_j = 1)) => FALSE
            /\ df = WithDefect(
                      Reorder(GridRows(cnt_i, cnt_j, ij_start, ck, vk),
                              cnt_i, cnt_j, colMajor, r, rev), d, k)
    /\ col_v = "Z"
    /\ epsg \in BuildEpsgs
    /\ status = "new"
    /\ gdf = None
    /\ ExportIdle
    /\ AppIdle

NextBuild == Build

SpecBuild == InitBuild /\ [][NextBuild]_vars

(***************************************************************************)
(* What the claims say about a table, stated on the table's keys alone.    *)
(***************************************************************************)
IsOf(t) == {t[k].I : k \in 1..Len(t)}
JsOf(t) == {t[k].J : k \in 1..Len(t)}
KeysOf(t) == {<<t[k].I, t[k].J>> : k \in 1..Len(t)}

\* unique (I, J) pairs covering [start, start+cnt_i-1] x [start, start+cnt_j-1]
IsDenseGrid(t) ==
    /\ t # <<>>
    /\ LET lo_i == SetMin(IsOf(t))
           lo_j == SetMin(JsOf(t))
       IN  /\ lo_i = lo_j
           /\ lo_i \in {0, 1}
           /\ IsOf(t) = lo_i..SetMax(IsOf(t))
           /\ JsOf(t) = lo_j..SetMax(JsOf(t))
    /\ KeysOf(t) = IsOf(t) \X JsOf(t)
    /\ Len(t) = Cardinality(KeysOf(t))

ValidGrid(t) == IsDenseGrid(t) /\ Cardinality(IsOf(t)) >= 2 /\ Cardinality(JsOf(t)) >= 2

\* key-based lookup of the point (i, j)
PointAt(t, i, j) == CHOOSE r \in {t[k] : k \in 1..Len(t)} : r.I = i /\ r.J = j
XYAt(t, i, j) == Pt(PointAt(t, i, j).X, PointAt(t, i, j).Y)

Built == status # "new"
\* the epsg argument is None or a code of a coordinate system
ValidCrs == epsg = None \/ Resolves(epsg[1])
IsSorted(t) == \A k \in 1..(Len(t) - 1) : Before(t[k], t[k + 1])

CntI(t) == Cardinality(IsOf(t))
CntJ(t) == Cardinality(JsOf(t))
Ring(c) == {c.geometry[v] : v \in 1..Len(c.geometry)}
Owners(g) == [k \in 1..Len(g) |-> <<g[k].I, g[k].J>>]
Values(g) == [k \in 1..Len(g) |-> g[k].V]

(***************************************************************************)
(* C1.  For every dense rectangular point table with cnt_i >= 2 and        *)
(* cnt_j >= 2 (start 0 or 1, rows in any order; epsg None or the code of a *)
(* coordinate system) the constructor returns                              *)
(* exactly (cnt_i-1)*(cnt_j-1) cells, each with exactly four corner        *)
(* vertices, none of them NaN; a 2x2 grid gives exactly one cell whose     *)
(* corners are the four input points.                                      *)
(***************************************************************************)
C1_CellCount ==
    (Built /\ ValidGrid(df) /\ ValidCrs) =>
        /\ status = "ok"
        /\ Len(gdf) = (CntI(df) - 1) * (CntJ(df) - 1)
        /\ \A k \in 1..Len(gdf) :
              /\ Len(gdf[k].geometry) = 4
              /\ NaNPt \notin Ring(gdf[k])
        /\ (Len(df) = 4) =>
              /\ Len(gdf) = 1
              /\ Ring(gdf[1]) = {Pt(df[k].X, df[k].Y) : k \in 1..4}
              /\ Cardinality(Ring(gdf[1])) = 4

\* a 2x2 grid starting at 1, rows not in (I, J) order, has been built
C1_Witness ==
    /\ Built
    /\ ValidGrid(df)
    /\ Len(df) = 4
    /\ IsOf(df) = {1, 2}
    /\ ~IsSorted(df)
    /\ Len(gdf) = 1

(***************************************************************************)
(* C2.  For every dense rectangular grid and every cell owned by (i, j),   *)
(* the ring is, in this order, the coordinates of the points with keys     *)
(* (i,j), (i,j+1), (i+1,j+1), (i+1,j): the row offsets 1, cnt_j+1, cnt_j   *)
(* in the sorted table land on the rows a key lookup finds, and the        *)
(* offsets of a kept row never run past the end of the table.              *)
(***************************************************************************)
C2_RingIsKeyNeighbours ==
    (Built /\ ValidGrid(df) /\ ValidCrs) =>
        /\ \A k \in 1..Len(gdf) :
              gdf[k].geometry = << XYAt(df, gdf[k].I, gdf[k].J),
                                   XYAt(df, gdf[k].I, gdf[k].J + 1),
                                   XYAt(df, gdf[k].I + 1, gdf[k].J + 1),
                                   XYAt(df, gdf[k].I + 1, gdf[k].J) >>
        /\ LET S == Sorted(df)
           IN  \A k \in 1..Len(S) :
                  Keep(S[k], Max_I(df), Max_J(df)) =>
                      /\ k + OffsetPt3(Nunique_J(df)) <= Len(S)
                      /\ k + OffsetPt4(Nunique_J(df)) <= Len(S)
                      /\ k + OffsetPt2(Nunique_J(df)) <= Len(S)

\* a 3x3 grid with skewed coordinates, given last row first, has been built
C2_Witness ==
    /\ Built
    /\ ValidGrid(df)
    /\ Len(df) = 9
    /\ Len(gdf) = 4
    /\ df[1].I = SetMax(IsOf(df))
    /\ df[1].J = SetMax(JsOf(df))
    /\ \E k \in 1..Len(df) : df[k].X # df[k].I

(***************************************************************************)
(* C3.  The attribute value of every cell is the value of its owning       *)
(* point (i, j); for the 3x3 grid with X = I, Y = J and value = I + J the  *)
(* cells (0,0), (0,1), (1,0), (1,1) carry the values 0, 1, 1, 2.           *)
(***************************************************************************)
IsExampleGrid(t) ==
    /\ KeysOf(t) = (0..2) \X (0..2)
    /\ Len(t) = 9
    /\ \A k \in 1..Len(t) : t[k].X = t[k].I /\ t[k].Y = t[k].J
                            /\ t[k].V = t[k].I + t[k].J

C3_ValueOfOwner ==
    (Built /\ ValidGrid(df) /\ ValidCrs) =>
        /\ \A k \in 1..Len(gdf) : gdf[k].V = PointAt(df, gdf[k].I, gdf[k].J).V
        /\ IsExampleGrid(df) =>
              /\ Owners(gdf) = << <<0, 0>>, <<0, 1>>, <<1, 0>>, <<1, 1>> >>
              /\ Values(gdf) = <<0, 1, 1, 2>>

\* the example grid, given in an order that is not the (I, J) order, has
\* been built
C3_Witness ==
    /\ Built
    /\ IsExampleGrid(df)
    /\ ~IsSorted(df)
    /\ Values(gdf) = <<0, 1, 1, 2>>

(***************************************************************************)
(* C4.  The owners of the cells are exactly the points with i < max_i and  *)
(* j < max_j, each once, in ascending (i, then j) order; no point with     *)
(* i = max_i or j = max_j owns a cell, and the values of those points do   *)
(* not influence the result.                                               *)
(***************************************************************************)
InteriorKeys(t) ==
    {key \in KeysOf(t) : key[1] < SetMax(IsOf(t)) /\ key[2] < SetMax(JsOf(t))}

\* the table with the value of every point on the far edges replaced
EdgeValuesReplaced(t) ==
    [k \in 1..Len(t) |->
        IF t[k].I = SetMax(IsOf(t)) \/ t[k].J = SetMax(JsOf(t))
        THEN [t[k] EXCEPT !.V = 77]
        ELSE t[k]]

C4_OwnerSequence ==
    (Built /\ ValidGrid(df) /\ ValidCrs) =>
        /\ status = "ok"
        /\ Len(gdf) = Cardinality(InteriorKeys(df))
        /\ {Owners(gdf)[k] : k \in 1..Len(gdf)} = InteriorKeys(df)
        /\ IsSorted(gdf)
        /\ \A k \in 1..Len(gdf) : /\ gdf[k].I # SetMax(IsOf(df))
                                  /\ gdf[k].J # SetMax(JsOf(df))
        /\ Cells(EdgeValuesReplaced(df)) = gdf

\* a grid given column by column (J changing slowest) has been built
C4_Witness ==
    /\ Built
    /\ ValidGrid(df)
    /\ Len(gdf) >= 2
    /\ df[1].J = df[2].J
    /\ df[1].I < df[2].I
    /\ \A k \in 1..(Len(df) - 1) : df[k].J <= df[k + 1].J

(***************************************************************************)
(* C5.  A point table that misses one (i, j) pair of its index range, or   *)
(* holds a pair twice, or whose row count differs from                     *)
(* (distinct I) * (distinct J), makes the constructor fail with            *)
(* MalformedGridError and leaves no dataset.  (The code defines no         *)
(* exception class; any exception out of the constructor counts as the     *)
(* failure the claim asks for.  Tables with fewer than 2 distinct I or J   *)
(* are C6's; the tables taken here have a point that owns a cell.)         *)
(***************************************************************************)
MissingPair(t) == KeysOf(t) # IsOf(t) \X JsOf(t)
DuplicatePair(t) == Len(t) > Cardinality(KeysOf(t))
CountMismatch(t) == Len(t) # CntI(t) * CntJ(t)
Malformed(t) == MissingPair(t) \/ DuplicatePair(t) \/ CountMismatch(t)

C5_MalformedRejected ==
    (Built /\ Malformed(df) /\ CntI(df) >= 2 /\ CntJ(df) >= 2
           /\ InteriorKeys(df) # {}) =>
        /\ status # "ok"
        /\ gdf = None

(***************************************************************************)
(* C6.  A point table with fewer than 2 distinct I values or fewer than 2  *)
(* distinct J values makes the constructor fail with EmptyGridError        *)
(* instead of returning a dataset.  (Any exception counts as the failure.) *)
(***************************************************************************)
Degenerate(t) == CntI(t) < 2 \/ CntJ(t) < 2

C6_DegenerateRejected ==
    (Built /\ Degenerate(df)) =>
        /\ status # "ok"
        /\ gdf = None

(***************************************************************************)
(* C12 (as claimed).  The constructor called with an EPSG integer that     *)
(* does not resolve to a coordinate system (999999999) completes and       *)
(* returns a dataset; the unknown code is reported only later.             *)
(***************************************************************************)
Unresolvable == epsg # None /\ ~Resolves(epsg[1])

Swap(t, k) ==
    [n \in 1..Len(t) |->
        IF n = k THEN t[k + 1] ELSE IF n = k + 1 THEN t[k] ELSE t[n]]

C16_PermutationInvariant ==
    (status = "ok" /\ IsDenseGrid(df)) =>
        /\ \A k \in 1..(Len(df) - 1) : Cells(Swap(df, k)) = gdf
        /\ \A r \in 0..(Len(df) - 1) : Cells(Rotate(df, r)) = gdf
        /\ Cells(Reverse(df)) = gdf

\* a 2x3 or 3x2 grid, rows not in (I, J) order, has been built into two cells
C16_Witness ==
    /\ status = "ok"
    /\ ValidGrid(df)
    /\ Len(df) = 6
    /\ ~IsSorted(df)
    /\ Len(gdf) = 2
    /\ gdf[1].geometry # gdf[2].geometry

DRIVER2EXT == ("ESRI Shapefile" :> "shp") @@ ("GeoJSON" :> "geojson") @@ ("GPKG" :> "gpkg")
EXT_PLOT == {"png", "pdf", "svg"}

\* The format strings zip_plot is called with, and the ones the serializer
\* behind fig.savefig writes: matplotlib takes the format from the file
\* name's extension and knows more formats than EXT_PLOT lists ("jpg" stands
\* for them); any other extension makes savefig raise ValueError.
PlotExts == EXT_PLOT \cup {"jpg", "xyz"}
SavefigFormats == EXT_PLOT \cup {"jpg"}

\* The drivers zip_gis is called with, and the ones the serializer behind
\* GeoDataFrame.to_file knows: GDAL has more vector drivers than DRIVER2EXT
\* lists ("FlatGeobuf" stands for them).
Drivers == DOMAIN DRIVER2EXT \cup {"FlatGeobuf", "NoSuchDriver"}
ToFileDrivers == DOMAIN DRIVER2EXT \cup {"FlatGeobuf"}

\* the extension the caller passes along with the driver (meshview.py:561
\* for the drivers of DRIVER2EXT)
ExtOfDriver(driver) ==
    CASE driver \in DOMAIN DRIVER2EXT -> DRIVER2EXT[driver]
      [] driver = "FlatGeobuf" -> "fgb"
      [] OTHER -> "xyz"

ColNames == {"Z", "Temperature"}
NameLen(name) == IF name = "Z" THEN 1 ELSE 11

DirNames == {"tmpA", "tmpB"}

File(dir, stem, ext, data) == [dir |-> dir, stem |-> stem, ext |-> ext, data |-> data]
\* os.path.basename(file), the arcname of the entry
\* (faulty variant FullPath: arcname left out, the entry is named by the path)
FullPath(f) == [stem |-> f.stem, ext |-> f.ext, dir |-> f.dir]
Basename(f) == [stem |-> f.stem, ext |-> f.ext]
Entry(f) == [name |-> Basename(f), data |-> f.data]
InDir(d) == {f \in files : f.dir = d}

\* What the serializers write.  Some formats carry the time of writing or
\* a random identifier in the payload: plotly's to_html names the figure's
\* div with a fresh uuid4, matplotlib stamps pdf and svg files with the
\* creation date, GDAL stamps a GeoPackage with last_change and a dBASE
\* table with the date of the last update.  A stamp stands for that part
\* of the payload; two calls may or may not get the same one.
Stamps == {"s1", "s2"}
Stamped == {"html", "pdf", "svg", "gpkg", "dbf"}
StampOf(ext, stamp) == IF ext \in Stamped THEN <<stamp>> ELSE None
PlotData(ext, stamp) == <<"figure", ext, StampOf(ext, stamp)>>
GisData(driver, part, stamp) == <<driver, part, epsg, Len(gdf), StampOf(part, stamp)>>

\* the sibling files a driver writes for mesh.<ext>
DriverExts(driver, ext) ==
    IF driver = "ESRI Shapefile"
    THEN {ext, "shx", "dbf", "cpg"} \cup (IF epsg # None THEN {"prj"} ELSE {})
    ELSE {ext}

\* the warnings to_file can emit
CrsWarning == [category |-> "UserWarning", kind |-> "crs_not_provided"]
TruncationWarning == [category |-> "UserWarning", kind |-> "column_name_truncated"]
GdalWarning == [category |-> "RuntimeWarning", kind |-> "value_not_written"]

Emitted(driver, gdal) ==
    (IF epsg = None THEN {CrsWarning} ELSE {})
    \cup (IF driver = "ESRI Shapefile" /\ NameLen(col_v) > 10
          THEN {TruncationWarning} ELSE {})
    \cup (IF gdal THEN {GdalWarning} ELSE {})

\* warnings.catch_warnings(action='ignore', category=UserWarning)
Ignored(w) == w.category = "UserWarning"

\* with tempfile.TemporaryDirectory() as tmpdir: with zipfile.ZipFile(...) as zf:
Enter(op, ext, driver) ==
    /\ pc = "idle"
    /\ status = "ok"
    /\ ncalls < MaxCalls
    /\ \E d \in DirNames \ dirs :
          /\ tmpdir' = d
          /\ dirs' = dirs \cup {d}
    /\ call' = [op |-> op, ext |-> ext, driver |-> driver]
    /\ archive' = {}
    /\ exc' = None
    /\ ncalls' = ncalls + 1
    /\ UNCHANGED <<files, pending, delivered, suppressed, ref>>
    /\ UNCHANGED buildVars
    /\ UNCHANGED appVars

ZipPlotEnter ==
    \E ext \in PlotExts :
        /\ Enter("zip_plot", ext, None)
        /\ pc' = "savefig"

\* fig.savefig(fname=filepath)
Savefig ==
    /\ pc = "savefig"
    /\ \E ok \in BOOLEAN, wrote \in BOOLEAN, stamp \in Stamps :
          LET f == File(tmpdir, "plot", call.ext, PlotData(call.ext, stamp))
          IN  IF call.ext \notin SavefigFormats
              THEN /\ exc' = <<"ValueError">>
                   /\ pc' = "zf_exit"
                   /\ files' = files
              ELSE IF ok
                   THEN /\ exc' = exc
                        /\ pc' = "zf_write_plot"
                        /\ files' = files \cup {f}
                   ELSE /\ exc' = <<"OSError">>
                        /\ pc' = "zf_exit"
                        /\ files' = IF wrote THEN files \cup {f} ELSE files
    /\ UNCHANGED <<call, tmpdir, dirs, archive, pending, delivered, suppressed, ncalls, ref>>
    /\ UNCHANGED buildVars
    /\ UNCHANGED appVars

\* zf.write(filename=filepath, arcname=os.path.basename(filepath))
ZfWritePlot ==
    /\ pc = "zf_write_plot"
    /\ \E ok \in BOOLEAN :
          LET here == {f \in InDir(tmpdir) : f.stem = "plot" /\ f.ext = call.ext}
          IN  IF here = {}
              THEN /\ exc' = <<"FileNotFoundError">>
                   /\ archive' = archive
              ELSE IF ok
                   THEN /\ exc' = exc
                        /\ archive' = archive \cup {Entry(f) : f \in here}
                   ELSE /\ exc' = <<"OSError">>
                        /\ archive' = archive
    /\ pc' = "zf_exit"
    /\ UNCHANGED <<call, tmpdir, dirs, files, pending, delivered, suppressed, ncalls, ref>>
    /\ UNCHANGED buildVars
    /\ UNCHANGED appVars

ZipGisEnter ==
    \E driver \in Drivers :
        /\ Enter("zip_gis", ExtOfDriver(driver), driver)
        /\ pc' = "to_file"

\* with warnings.catch_warnings(...): self.gdf.to_file(filename=filepath, driver=driver)
ToFile ==
    /\ pc = "to_file"
    /\ \E ok \in BOOLEAN, wrote \in BOOLEAN, gdal \in BOOLEAN, stamp \in Stamps :
          LET out == {File(tmpdir, "mesh", e, GisData(call.driver, e, stamp)) :
                          e \in DriverExts(call.driver, call.ext)}
              ws  == Emitted(call.driver, gdal)
          IN  IF call.driver \notin ToFileDrivers
              THEN /\ exc' = <<"DriverError">>
                   /\ pc' = "zf_exit"
                   /\ files' = files
                   /\ UNCHANGED <<delivered, suppressed>>
              ELSE /\ suppressed' = {w \in ws : Ignored(w)}
                   /\ delivered' = {w \in ws : ~Ignored(w)}
                   /\ IF ok
                      THEN /\ exc' = exc
                           /\ pc' = "glob"
                           /\ files' = files \cup out
                      ELSE /\ exc' = <<"OSError">>
                           /\ pc' = "zf_exit"
                           /\ files' = IF wrote THEN files \cup out ELSE files
    /\ UNCHANGED <<call, tmpdir, dirs, archive, pending, ncalls, ref>>
    /\ UNCHANGED buildVars
    /\ UNCHANGED appVars

\* files = glob.glob(pathname=os.path.join(tmpdir, f'{filename}.*'))
Glob ==
    /\ pc = "glob"
    /\ pending' = {f \in InDir(tmpdir) : f.stem = "mesh"}
    /\ pc' = "zf_write_gis"
    /\ UNCHANGED <<call, tmpdir, dirs, files, archive, exc, delivered, suppressed, ncalls, ref>>
    /\ UNCHANGED buildVars
    /\ UNCHANGED appVars

\* for file in files: zf.write(filename=file, arcname=os.path.basename(file))
ZfWriteGis ==
    /\ pc = "zf_write_gis"
    /\ IF pending = {}
       THEN /\ pc' = "zf_exit"
            /\ UNCHANGED <<archive, pending, exc>>
       ELSE \E f \in pending, ok \in BOOLEAN :
               IF f \notin files
               THEN /\ exc' = <<"FileNotFoundError">>
                    /\ pc' = "zf_exit"
                    /\ UNCHANGED <<archive, pending>>
               ELSE IF ok
                    THEN /\ archive' = archive \cup {Entry(f)}
                         /\ pending' = pending \ {f}
                         /\ UNCHANGED <<pc, exc>>
                    ELSE /\ exc' = <<"OSError">>
                         /\ pc' = "zf_exit"
                         /\ UNCHANGED <<archive, pending>>
    /\ UNCHANGED <<call, tmpdir, dirs, files, delivered, suppressed, ncalls, ref>>
    /\ UNCHANGED buildVars
    /\ UNCHANGED appVars

\* leaving "with zipfile.ZipFile(...) as zf", normally or by an exception
ZfExit ==
    /\ pc = "zf_exit"
    /\ pc' = "tmp_exit"
    /\ UNCHANGED <<call, tmpdir, dirs, files, archive, pending, exc, delivered,
                 suppressed, ncalls, ref>>
    /\ UNCHANGED buildVars
    /\ UNCHANGED appVars

\* leaving "with tempfile.TemporaryDirectory() as tmpdir", normally or by
\* an exception: the directory and what it holds are removed; then
\* "return in_memory", or the exception goes on to the caller
Cleanup(d) ==
    /\ dirs' = dirs \ {d}
    /\ files' = files \ InDir(d)
\* (faulty variant CleanupUnlessRaising: removal written after the body
\* instead of in a context manager, so an exception skips it)
CleanupUnlessRaising(d) ==
    IF exc = None THEN Cleanup(d) ELSE UNCHANGED <<dirs, files>>
TemporaryDirectoryExit(d) == Cleanup(d)

TmpExit ==
    /\ pc = "tmp_exit"
    /\ TemporaryDirectoryExit(tmpdir)
    /\ pc' = IF exc = None THEN "returned" ELSE "raised"
    /\ UNCHANGED <<call, tmpdir, archive, pending, exc, delivered, suppressed, ncalls, ref>>
    /\ UNCHANGED buildVars
    /\ UNCHANGED appVars

\* zip_map: with zipfile.ZipFile(...) as zf: zf.writestr('map.html', fig.to_html())
ZipMap ==
    /\ pc = "idle"
    /\ status = "ok"
    /\ ncalls < MaxCalls
    /\ call' = [op |-> "zip_map", ext |-> "html", driver |-> None]
    /\ ncalls' = ncalls + 1
    /\ \E ok \in BOOLEAN, stamp \in Stamps :
          IF ok
          THEN /\ archive' = {[name |-> [stem |-> "map", ext |-> "html"],
                               data |-> PlotData("html", stamp)]}
               /\ exc' = None
               /\ pc' = "returned"
          ELSE /\ archive' = {}
               /\ exc' = <<"ValueError">>
               /\ pc' = "raised"
    /\ UNCHANGED <<tmpdir, dirs, files, pending, delivered, suppressed, ref>>
    /\ UNCHANGED buildVars
    /\ UNCHANGED appVars

\* the caller (st.download_button(data=...)) takes the archive or the
\* exception; the call's locals are gone (ref: the observer may keep what a
\* returned call delivered, to compare a later call with it)
Receive ==
    /\ pc \in {"returned", "raised"}
    /\ \E keep \in BOOLEAN :
          ref' = IF keep /\ pc = "returned"
                 THEN <<[call |-> call, archive |-> archive]>>
                 ELSE ref
    /\ pc' = "idle"
    /\ call' = None
    /\ tmpdir' = None
    /\ archive' = {}
    /\ exc' = None
    /\ delivered' = {}
    /\ suppressed' = {}
    /\ pending' = {}
    /\ UNCHANGED <<dirs, files, ncalls>>
    /\ UNCHANGED buildVars
    /\ UNCHANGED appVars

\* the tables the exported objects are built from
ExportTables == {GridRows(cnt_i, 2, 0, "unit", "sum") : cnt_i \in 2..MaxCnt}

\* a Meshs object has been constructed
Init ==
    /\ df \in ExportTables
    /\ col_v \in ColNames
    /\ epsg \in Epsgs
    /\ status = "ok"
    /\ gdf = Cells(df)
    /\ ExportIdle
    /\ AppIdle

Next ==
    \/ ZipPlotEnter
    \/ Savefig
    \/ ZfWritePlot
    \/ ZipGisEnter
    \/ ToFile
    \/ Glob
    \/ ZfWriteGis
    \/ ZfExit
    \/ TmpExit
    \/ ZipMap
    \/ Receive

Spec == Init /\ [][Next]_vars

Finished == pc \in {"returned", "raised"}

UsesTmpdir == call # None /\ call.op \in {"zip_plot", "zip_gis"}

(***************************************************************************)
(* C7.  For every export call that uses a temporary directory (zip_plot,   *)
(* zip_gis) the directory the call acquired, and every file in it, no      *)
(* longer exists when the call returns or raises (serializer failure in    *)
(* savefig / to_file, failure while adding files to the archive), nothing  *)
(* is left behind between calls, and every archive entry is read from a    *)
(* file that exists in the call's directory at the time it is added.       *)
(***************************************************************************)
C7_Removed ==
    /\ (Finished /\ UsesTmpdir) => (tmpdir \notin dirs /\ InDir(tmpdir) = {})
    /\ (Finished \/ pc = "idle") => (dirs = {} /\ files = {})

C7_ReadBeforeRemoval ==
    (UsesTmpdir /\ UsesTmpdir' /\ archive' # archive) =>
        /\ tmpdir \in dirs
        /\ \A e \in archive' \ archive :
              \E f \in InDir(tmpdir) : Entry(f) = e

C7_TmpdirScoped == []C7_Removed /\ [][C7_ReadBeforeRemoval]_vars

\* zip_gis has raised while adding files to the archive, after it had
\* added some
C7_Witness ==
    /\ pc = "raised"
    /\ call.op = "zip_gis"
    /\ exc = <<"OSError">>
    /\ archive # {}
    /\ pending # {}
    /\ tmpdir \notin dirs

(***************************************************************************)
(* C8.  zip_plot called with a format string outside {png, pdf, svg}       *)
(* fails with UnsupportedFormatError and returns no archive; called with   *)
(* a format of the set, the archive it returns holds exactly one entry,    *)
(* named plot.<format>.  (Any exception counts as the failure.)            *)
(***************************************************************************)
C8_PlotFormats ==
    (Finished /\ call.op = "zip_plot") =>
        IF call.ext \in EXT_PLOT
        THEN (pc = "returned") =>
                /\ Cardinality(archive) = 1
                /\ \A e \in archive : e.name = [stem |-> "plot", ext |-> call.ext]
        ELSE /\ pc = "raised"
             /\ exc # None

(***************************************************************************)
(* C9.  During zip_gis a warning is suppressed only when it is the         *)
(* missing-spatial-reference advisory for a dataset whose crs is None;     *)
(* every other warning the serializer raises reaches the caller.           *)
(***************************************************************************)
C9_OnlyCrsAdvisorySuppressed ==
    \A w \in suppressed : w = CrsWarning /\ epsg = None

(***************************************************************************)
(* C10.  The archive zip_gis returns holds exactly the files the driver    *)
(* wrote into this call's temporary directory with the base name 'mesh',   *)
(* each under its bare file name; a driver that DRIVER2EXT does not list   *)
(* fails with UnsupportedFormatError.  (Any exception counts as the        *)
(* failure.)                                                               *)
(***************************************************************************)
C10_GisArchive ==
    /\ (pc = "tmp_exit" /\ call.op = "zip_gis" /\ exc = None) =>
          archive = {Entry(f) : f \in {g \in InDir(tmpdir) : g.stem = "mesh"}}
    /\ (Finished /\ call.op = "zip_gis" /\ call.driver \notin DOMAIN DRIVER2EXT) =>
          /\ pc = "raised"
          /\ exc # None

(***************************************************************************)
(* C11 (as claimed).  Two export calls with identical inputs, in any order *)
(* and with any other export calls between them, return archives with the  *)
(* same entry names and the same payload for every entry.                  *)
(***************************************************************************)
SameInputs ==
    /\ pc = "returned"
    /\ ref # None
    /\ ref[1].call.op = call.op
    /\ ref[1].call.ext = call.ext
    /\ ref[1].call.driver = call.driver

C11_IdenticalPayloads == SameInputs => ref[1].archive = archive

(***************************************************************************)
(* C11 (amended).  Two export calls with identical inputs, in any order    *)
(* and with any other export calls between them, return archives with the  *)
(* same entry names and, for every entry, the same payload apart from the  *)
(* time stamp or random identifier the serializer embeds (html, pdf, svg,  *)
(* gpkg, dbf); no step of an export call changes the Meshs object.         *)
(***************************************************************************)
Names(ar) == {e.name : e \in ar}
\* an entry's payload without the stamp
Unstamped(e) == [name |-> e.name, data |-> SubSeq(e.data, 1, Len(e.data) - 1)]

C11_SameEntries ==
    SameInputs =>
        /\ Names(ref[1].archive) = Names(archive)
        /\ {Unstamped(e) : e \in ref[1].archive} = {Unstamped(e) : e \in archive}
        /\ Cardinality(archive) = Cardinality(Names(archive))

C11_DatasetUntouched ==
    <<df, col_v, epsg, status, gdf>>' = <<df, col_v, epsg, status, gdf>>

C11_Idempotent == []C11_SameEntries /\ [][C11_DatasetUntouched]_vars

\* the third export call is a zip_gis to a GeoPackage that returned; the
\* first was the same call, another call ran between them, and the two
\* archives differ in the stamp alone
C11_Witness ==
    /\ SameInputs
    /\ ncalls = 3
    /\ call.op = "zip_gis"
    /\ call.driver = "GPKG"
    /\ ref[1].archive # archive
    /\ Names(ref[1].archive) = {[stem |-> "mesh", ext |-> "gpkg"]}

(***************************************************************************)
(* The application (meshview.py).  Streamlit runs main() from the top      *)
(* whenever a widget changes: the run in progress stops at its next st.*   *)
(* call, the callbacks of the changed widgets run, then the script starts  *)
(* again.  A run is modelled block by block (rpc); between two blocks a    *)
(* new widget event may end it.  The page keeps the widgets of the         *)
(* previous run until the new run draws its first block over them (live).  *)
(* The values of widgets without a callback are read when the block that   *)
(* draws them runs.                                                        *)
(***************************************************************************)
\* st.session_state
Has(key) == key \in DOMAIN ss
Put(s, key, value) == (key :> value) @@ s
Del(s, key) == [k \in (DOMAIN s) \ {key} |-> s[k]]

\* st.session_state['step'], 1 until main() has stored it (lines 75-76)
StepNow == IF Has("step") THEN ss["step"] ELSE 1

\* the texts typed into the EPSG field, as tuples of characters (None: the
\* field is empty)
EpsgTexts ==
    {None,
     <<"6", "6", "7", "7">>,
     <<"9", "9", "9", "9", "9", "9", "9", "9", "9">>,
     <<"a", "b", "c">>}

Digit ==
    ("0" :> 0) @@ ("1" :> 1) @@ ("2" :> 2) @@ ("3" :> 3) @@ ("4" :> 4) @@
    ("5" :> 5) @@ ("6" :> 6) @@ ("7" :> 7) @@ ("8" :> 8) @@ ("9" :> 9)

IsDecimal(text) ==
    text # <<>> /\ \A k \in 1..Len(text) : text[k] \in DOMAIN Digit

RECURSIVE DecimalValue(_)
DecimalValue(text) ==
    IF text = <<>> THEN 0
    ELSE 10 * DecimalValue(SubSeq(text, 1, Len(text) - 1)) + Digit[text[Len(text)]]

\* callback_set_epsg, lines 54-62: None for an empty field, int(text), or
\* None when int raises ValueError
EpsgOfText(text) ==
    IF text = None THEN None
    ELSE IF IsDecimal(text) THEN <<DecimalValue(text)>>
    ELSE None

\* view.caption_crs_name(epsg): True if CRS.from_epsg(epsg) succeeds
caption_crs_name(code) == Resolves(code)

\* the names typed into the attribute-name field (line 116); 'I' is the
\* name of one of the four columns the application itself uses
AppColNames == {"Z", "I"}
ReservedNames == {"I", "J", "X", "Y"}

\* the column named col_v of a row set to v: the column V of the model,
\* which is the column I, J, X or Y itself when col_v is that name
WithColV(row, name, v) ==
    IF name \in ReservedNames
    THEN [[row EXCEPT ![name] = v] EXCEPT !.V = v]
    ELSE [row EXCEPT !.V = v]

\* lines 169-179: the table of the manual tab; the dict literal ends with
\* the key col_v, which replaces an earlier key of the same name
df_manual(cnt_i, cnt_j, ij_start, name) ==
    [k \in 1..(cnt_i * cnt_j) |->
        WithColV([I |-> ij_start + ((k - 1) \div cnt_j),
                  J |-> ij_start + ((k - 1) % cnt_j),
                  X |-> 0, Y |-> 0, V |-> 0], name, 0)]

\* what the data editor lets the user change: X, Y and the column col_v
EditCols == {"X", "Y", "V"}
EditValues == {1}

\* the event is over: the script starts again, the locals of the old run
\* are gone
Rerun ==
    /\ rpc' = "main"
    /\ dummy_v' = None
    /\ range_v' = None
    /\ built_here' = FALSE
    /\ exported' = {}

\* a callback raised: Streamlit shows the exception and does not run the script
CallbackRaised ==
    /\ rpc' = "done"
    /\ dummy_v' = None
    /\ range_v' = None
    /\ built_here' = FALSE
    /\ exported' = {}

\* the user can operate the page (no Python call is being executed)
CanInteract == status # "new" /\ pc = "idle"

\* a widget without a callback changed: a count, the start number or the
\* attribute name at step 1, the uploaded file at step 2, a display setting
\* at step 3
WidgetChanged ==
    /\ CanInteract
    /\ live \cap {"s1_inputs", "s2_upload", "s3_settings"} # {}
    /\ Rerun
    /\ UNCHANGED <<ss, live, upload_ok, nedits>>
    /\ UNCHANGED buildVars
    /\ UNCHANGED exportVars

\* the EPSG field changed: callback_set_epsg (lines 50-62)
callback_set_epsg(text) ==
    /\ CanInteract
    /\ "s1_epsg" \in live
    /\ ss' = Put(ss, "epsg", EpsgOfText(text))
    /\ Rerun
    /\ UNCHANGED <<live, upload_ok, nedits>>
    /\ UNCHANGED buildVars
    /\ UNCHANGED exportVars

ChangeEpsgText == \E text \in EpsgTexts : callback_set_epsg(text)

\* callback_set_step_df(step, key), lines 44-47; key is None or <<name>>.
\* session_state[key] raises KeyError for a key that was deleted, after
\* the step has been stored
callback_set_step_df(step, key) ==
    LET stepped == Put(ss, "step", step)
    IN  IF key = None
        THEN /\ ss' = stepped
             /\ Rerun
        ELSE IF Has(key[1])
        THEN /\ ss' = Del(Put(stepped, "df_pt", ss[key[1]]), key[1])
             /\ Rerun
        ELSE /\ ss' = stepped
             /\ CallbackRaised

\* the button 'confirm1'
ClickConfirm1 ==
    /\ CanInteract
    /\ "confirm1" \in live
    /\ callback_set_step_df(2, None)
    /\ UNCHANGED <<live, upload_ok, nedits>>
    /\ UNCHANGED buildVars
    /\ UNCHANGED exportVars

\* a cell of the data editor changed: callback_apply_edited_rows
\* (lines 23-26), session_state['df_manual'].loc[idx, col] = val
callback_apply_edited_rows(idx, col, val) ==
    IF Has("df_manual")
    THEN /\ ss' = Put(ss, "df_manual",
                      [ss["df_manual"] EXCEPT ![idx] =
                          IF col = "V" THEN WithColV(@, ss["col_v"], val)
                          ELSE [@ EXCEPT ![col] = val]])
         /\ Rerun
    ELSE /\ ss' = ss
         /\ CallbackRaised

EditCell ==
    /\ CanInteract
    /\ "s2_manual" \in live
    /\ nedits < MaxEdits
    /\ \E idx \in (IF Has("df_manual") THEN 1..Len(ss["df_manual"]) ELSE {1}),
          col \in EditCols, val \in EditValues :
          callback_apply_edited_rows(idx, col, val)
    /\ nedits' = nedits + 1
    /\ UNCHANGED <<live, upload_ok>>
    /\ UNCHANGED buildVars
    /\ UNCHANGED exportVars

\* the button 'confirm2_manual'
ClickConfirm2Manual ==
    /\ CanInteract
    /\ "s2_manual" \in live
    /\ callback_set_step_df(3, <<"df_manual">>)
    /\ UNCHANGED <<live, upload_ok, nedits>>
    /\ UNCHANGED buildVars
    /\ UNCHANGED exportVars

\* the button 'confirm2_upload', disabled unless is_correct_ij (line 348)
ClickConfirm2Upload ==
    /\ CanInteract
    /\ "s2_upload" \in live
    /\ upload_ok
    /\ callback_set_step_df(3, <<"df_upload">>)
    /\ UNCHANGED <<live, upload_ok, nedits>>
    /\ UNCHANGED buildVars
    /\ UNCHANGED exportVars

\* a widget inside a fragment changed: Streamlit runs the fragment's
\* function alone, with the variables of the run that defined it
FragmentRerun(group) ==
    /\ CanInteract
    /\ group \in live
    /\ rpc' = group
    /\ built_here' = FALSE
    /\ exported' = {}
    /\ UNCHANGED <<ss, live, upload_ok, dummy_v, range_v, nedits>>
    /\ UNCHANGED buildVars
    /\ UNCHANGED exportVars

SelectDriver == FragmentRerun("frag_gis")
SelectExt == FragmentRerun("frag_plot")
ClickDownloadMap == FragmentRerun("frag_map")

(***************************************************************************)
(* main(), block by block.                                                 *)
(***************************************************************************)
\* the point counts taken for the two number inputs (min_value=2)
Counts == {2, 3}

\* step 1, lines 75-123: the step is stored, the inputs are read
Step1Inputs ==
    /\ rpc = "main"
    /\ StepNow = 1
    /\ \E cnt_i \in Counts, cnt_j \in Counts, ij_start \in {0, 1},
          name \in AppColNames :
          ss' = Put(Put(Put(Put(Put(ss, "step", 1), "cnt_i", cnt_i),
                            "cnt_j", cnt_j), "ij_start", ij_start),
                    "col_v", name)
    /\ live' = {"s1_inputs"}
    /\ rpc' = "s1_epsg"
    /\ UNCHANGED <<upload_ok, dummy_v, range_v, built_here, exported, nedits>>
    /\ UNCHANGED buildVars
    /\ UNCHANGED exportVars

\* step 1, lines 125-148: the EPSG field is drawn, the code the callback
\* stored is checked and dropped if it does not resolve, the confirm
\* button is drawn
Step1Epsg ==
    /\ rpc = "s1_epsg"
    /\ LET s1 == IF Has("epsg") THEN ss ELSE Put(ss, "epsg", None)
           e  == s1["epsg"]
       IN  ss' = IF e # None /\ ~caption_crs_name(e[1])
                 THEN Put(s1, "epsg", None)
                 ELSE s1
    /\ live' = live \cup {"s1_epsg", "confirm1"}
    /\ rpc' = "done"
    /\ UNCHANGED <<upload_ok, dummy_v, range_v, built_here, exported, nedits>>
    /\ UNCHANGED buildVars
    /\ UNCHANGED exportVars

\* step 2, lines 150-230: the manual tab; df_manual is generated on the
\* first run of the step
Step2Manual ==
    /\ rpc = "main"
    /\ StepNow = 2
    /\ ss' = IF Has("df_manual") THEN ss
             ELSE Put(ss, "df_manual",
                      df_manual(ss["cnt_i"], ss["cnt_j"], ss["ij_start"],
                                ss["col_v"]))
    /\ live' = {"s2_manual"}
    /\ rpc' = "s2_upload"
    /\ UNCHANGED <<upload_ok, dummy_v, range_v, built_here, exported, nedits>>
    /\ UNCHANGED buildVars
    /\ UNCHANGED exportVars

\* the files a user may pick for the grid of the session: the grid in
\* (I, J) order, the same rows last row first, one row missing, one row
\* twice, the grid of the other start number, the grid with the two counts
\* exchanged, and a file that is not a table
UploadFiles ==
    LET cnt_i == ss["cnt_i"]
        cnt_j == ss["cnt_j"]
        ij_start == ss["ij_start"]
        g == GridRows(cnt_i, cnt_j, ij_start, "unit", "sum")
    IN  {[parses |-> TRUE, rows |-> r] :
            r \in {g, Reverse(g), RemoveAt(g, Len(g)), DupAt(g, 1),
                   GridRows(cnt_i, cnt_j, 1 - ij_start, "unit", "sum"),
                   GridRows(cnt_j, cnt_i, ij_start, "unit", "sum")}}
        \cup {[parses |-> FALSE, rows |-> <<>>]}

\* pd.read_csv(..., names=['I', 'J', 'X', 'Y', col_v], ...), lines 299-313:
\* <<table>>, or None when it raises ParserError or ValueError (a file
\* that is not a table; a name given twice)
read_csv(file, name) ==
    IF file.parses /\ name \notin ReservedNames THEN <<file.rows>> ELSE None

\* lines 316-322: df_manual[['I', 'J']] == df_upload[['I', 'J']].sort_values(
\* ['I', 'J']), all cells True.  == compares frames label by label and
\* raises ValueError unless both have the same row labels in the same
\* order; the labels of both frames are 0, 1, ... as created.
IsCorrectIJ(manual, upload) ==
    LET labelled == [k \in 1..Len(upload) |->
                        [I |-> upload[k].I, J |-> upload[k].J, label |-> k - 1]]
        sorted == SortValues(labelled)
    IN  IF [k \in 1..Len(sorted) |-> sorted[k].label]
           # [k \in 1..Len(manual) |-> k - 1]
        THEN FALSE
        ELSE \A k \in 1..Len(manual) :
                manual[k].I = sorted[k].I /\ manual[k].J = sorted[k].J

\* step 2, lines 232-352: the upload tab
Step2Upload ==
    /\ rpc = "s2_upload"
    /\ \E uploaded_file \in {None} \cup {<<f>> : f \in UploadFiles} :
          LET df_upload == IF uploaded_file = None THEN None
                           ELSE read_csv(uploaded_file[1], ss["col_v"])
              is_correct_ij == /\ df_upload # None
                               /\ IsCorrectIJ(ss["df_manual"], df_upload[1])
          IN  /\ ss' = IF is_correct_ij THEN Put(ss, "df_upload", df_upload[1])
                       ELSE ss
              /\ upload_ok' = is_correct_ij
    /\ live' = live \cup {"s2_upload"}
    /\ rpc' = "done"
    /\ UNCHANGED <<dummy_v, range_v, built_here, exported, nedits>>
    /\ UNCHANGED buildVars
    /\ UNCHANGED exportVars

\* the dummy values the number input can hold (value=None until set)
DummyValues == {None, <<0>>, <<1>>}

\* Python's truth value of dummy_v in "... if dummy_v else df_v" (line 404)
Truthy(dv) == dv # None /\ dv[1] # 0

\* lines 402-404: the values the range is taken over
RangeValues(t, max_i, max_j, dv) ==
    LET vals == {t[k].V : k \in {n \in 1..Len(t) :
                                    t[n].I # max_i /\ t[n].J # max_j}}
    IN  IF Truthy(dv) THEN vals \ {dv[1]} ELSE vals

\* lines 406-408 and 423-428 with the toggle on: [min_v, max_v] if
\* min_v < max_v, else None (max and min of no value are NaN)
RangeOf(vals) ==
    IF vals # {} /\ SetMin(vals) < SetMax(vals)
    THEN <<SetMin(vals), SetMax(vals)>>
    ELSE None

\* Meshs.plot / Meshs.choropleth_map (model.py 188-191, 259-262): the
\* cells drawn
RenderedCells(g, dv) == SelectSeq(g, LAMBDA c : dv = None \/ c.V # dv[1])

\* step 3, lines 354-486: the display settings and the range
Step3Range ==
    /\ rpc = "main"
    /\ StepNow = 3
    /\ \E dv \in DummyValues :
          /\ dummy_v' = dv
          /\ range_v' = RangeOf(RangeValues(ss["df_pt"],
                                            ss["cnt_i"] + ss["ij_start"] - 1,
                                            ss["cnt_j"] + ss["ij_start"] - 1,
                                            dv))
    /\ live' = {"s3_settings"}
    /\ rpc' = "s3_meshs"
    /\ UNCHANGED <<ss, upload_ok, built_here, exported, nedits>>
    /\ UNCHANGED buildVars
    /\ UNCHANGED exportVars

\* step 3, lines 488-492 and Meshs.__init__ up to the call of set_gdf
Step3Meshs ==
    /\ rpc = "s3_meshs"
    /\ df' = ss["df_pt"]
    /\ col_v' = ss["col_v"]
    /\ epsg' = ss["epsg"]
    /\ status' = "new"
    /\ gdf' = None
    /\ rpc' = "s3_build"
    /\ UNCHANGED <<ss, live, upload_ok, dummy_v, range_v, built_here, exported,
                   nedits>>
    /\ UNCHANGED exportVars

\* step 3, lines 494-547: the constructor has returned and the figure is
\* drawn, or the constructor's exception ends the run
Step3Figure ==
    /\ rpc = "s3_build"
    /\ status # "new"
    /\ IF status = "ok"
       THEN /\ built_here' = TRUE
            /\ rpc' = "s3_gis"
       ELSE /\ built_here' = FALSE
            /\ rpc' = "done"
    /\ UNCHANGED <<ss, live, upload_ok, dummy_v, range_v, exported, nedits>>
    /\ UNCHANGED buildVars
    /\ UNCHANGED exportVars

(***************************************************************************)
(* The download fragments (lines 513-567).  Each draws a download button   *)
(* whose data is the archive of an export call, made while the fragment    *)
(* runs; the call's own steps are the exporter actions above and it leaves *)
(* dirs and files as it found them, so here it is one step: the call is    *)
(* made, and it returns or its exception ends the run.                     *)
(***************************************************************************)
\* lines 496 and 574: "if epsg is not None" chooses the map over the plot
\* (faulty variant OffersMapAlways: the test left out)
OffersMapAlways(e) == TRUE
OffersMap(e) == e # None

Export(c, group, next) ==
    /\ exported' = {c}
    /\ \E ok \in BOOLEAN :
          IF ok
          THEN /\ live' = live \cup {group}
               /\ rpc' = next
          ELSE /\ live' = live
               /\ rpc' = "done"
    /\ UNCHANGED <<ss, upload_ok, dummy_v, range_v, built_here, nedits>>
    /\ UNCHANGED buildVars
    /\ UNCHANGED exportVars

\* lines 551-567: meshs.zip_gis(driver, DRIVER2EXT[driver])
download_gis(next) ==
    \E driver \in DOMAIN DRIVER2EXT :
        Export([op |-> "zip_gis", ext |-> DRIVER2EXT[driver], driver |-> driver],
               "frag_gis", next)

\* lines 513-521: meshs.zip_map(fig)
download_map(next) == Export([op |-> "zip_map"], "frag_map", next)

\* lines 532-547: meshs.zip_plot(fig, ext)
download_plot(next) ==
    \E ext \in EXT_PLOT :
        Export([op |-> "zip_plot", ext |-> ext], "frag_plot", next)

\* step 3, lines 569-572
Step3Gis ==
    /\ rpc = "s3_gis"
    /\ download_gis("s3_download")

\* step 3, lines 573-577
Step3Download ==
    /\ rpc = "s3_download"
    /\ IF OffersMap(ss["epsg"]) THEN download_map("done") ELSE download_plot("done")

\* the fragments run alone
FragGis == rpc = "frag_gis" /\ download_gis("done")
FragPlot == rpc = "frag_plot" /\ download_plot("done")
FragMap == rpc = "frag_map" /\ download_map("done")

\* a browser session opens: nothing is stored, the script runs for the
\* first time; no Meshs object exists
InitApp ==
    /\ df = <<>>
    /\ col_v = "Z"
    /\ epsg = None
    /\ status = "none"
    /\ gdf = None
    /\ ExportIdle
    /\ ss = <<>>
    /\ live = {}
    /\ upload_ok = FALSE
    /\ rpc = "main"
    /\ dummy_v = None
    /\ range_v = None
    /\ built_here = FALSE
    /\ exported = {}
    /\ nedits = 0

NextApp ==
    \/ WidgetChanged
    \/ ChangeEpsgText
    \/ ClickConfirm1
    \/ EditCell
    \/ ClickConfirm2Manual
    \/ ClickConfirm2Upload
    \/ SelectDriver
    \/ SelectExt
    \/ ClickDownloadMap
    \/ Step1Inputs
    \/ Step1Epsg
    \/ Step2Manual
    \/ Step2Upload
    \/ Step3Range
    \/ Step3Meshs
    \/ Build
    \/ Step3Figure
    \/ Step3Gis
    \/ Step3Download
    \/ FragGis
    \/ FragPlot
    \/ FragMap

SpecApp == InitApp /\ [][NextApp]_vars

(***************************************************************************)
(* C13.  Under every interleaving of callback_set_epsg, the step-1         *)
(* confirm's callback_set_step_df and the script runs, whenever the wizard *)
(* is at step 2 or 3 the session's epsg is None or a code that resolves,   *)
(* and the Meshs constructor is never failed by an unresolvable code.      *)
(* (Stated for the attribute name the form starts with, 'Z'.)              *)
(***************************************************************************)
DefaultName == Has("col_v") /\ ss["col_v"] = "Z"

C13_EpsgValidated ==
    DefaultName =>
        /\ (StepNow \in {2, 3}) =>
              /\ Has("epsg")
              /\ ss["epsg"] = None \/ Resolves(ss["epsg"][1])
        /\ status # "CRSError"

(***************************************************************************)
(* C14 (as claimed).  An export call (zip_gis, zip_map, zip_plot) is made  *)
(* only at step 3, on a Meshs object whose constructor returned and that   *)
(* was built from the session's current df_pt, col_v and epsg in the same  *)
(* run; zip_map only when epsg is not None, zip_plot only when it is None. *)
(* (Stated for the attribute name the form starts with, 'Z'.)              *)
(***************************************************************************)
ExportGuarded(c) ==
    /\ StepNow = 3
    /\ status = "ok"
    /\ df = ss["df_pt"]
    /\ col_v = ss["col_v"]
    /\ epsg = ss["epsg"]
    /\ (c.op = "zip_map") => (epsg # None)
    /\ (c.op = "zip_plot") => (epsg = None)

C14_ExportInBuildingRun ==
    DefaultName => \A c \in exported : ExportGuarded(c) /\ built_here

(***************************************************************************)
(* C14 (amended).  An export call is made only at step 3, on a Meshs       *)
(* object whose constructor returned and that was built from the session's *)
(* current df_pt, col_v and epsg, in the same run or in the run whose      *)
(* fragment is being rerun; zip_map is called, and its fragment is on the  *)
(* page, only when epsg is not None, zip_plot only when epsg is None.      *)
(***************************************************************************)
C14_ExportsGuarded ==
    /\ \A c \in exported : ExportGuarded(c)
    /\ ("frag_map" \in live) => (ss["epsg"] # None)
    /\ ("frag_plot" \in live) => (ss["epsg"] = None)
    /\ (live \cap {"frag_gis", "frag_map", "frag_plot"} # {}) =>
          (StepNow = 3 /\ status = "ok")

\* the plot fragment was rerun for the format svg and has made its call
C14_Witness ==
    /\ rpc = "done"
    /\ ~built_here
    /\ exported = {[op |-> "zip_plot", ext |-> "svg"]}
    /\ "frag_plot" \in live
    /\ Len(gdf) >= 1

(***************************************************************************)
(* C15.  Whenever the wizard is at step 3, session df_pt holds exactly     *)
(* cnt_i * cnt_j rows whose (I, J) pairs are unique and cover              *)
(* [ij_start, ij_start+cnt_i-1] x [ij_start, ij_start+cnt_j-1], whatever   *)
(* was edited, uploaded and clicked before.                                *)
(***************************************************************************)
SessionGrid ==
    (ss["ij_start"]..(ss["ij_start"] + ss["cnt_i"] - 1))
        \X (ss["ij_start"]..(ss["ij_start"] + ss["cnt_j"] - 1))

C15_GridAtStep3 ==
    (StepNow = 3) =>
        /\ Has("df_pt")
        /\ Len(ss["df_pt"]) = ss["cnt_i"] * ss["cnt_j"]
        /\ KeysOf(ss["df_pt"]) = SessionGrid

(***************************************************************************)
(* C18.  At step 3, for every dummy value (0 included), the automatic      *)
(* display range is the minimum and maximum over exactly the cells the     *)
(* figure draws: the cells of the dataset whose value differs from the     *)
(* dummy value.  (Stated for attribute names that are not the name of a    *)
(* coordinate or index column.)                                            *)
(***************************************************************************)
C18_RangeOverRendered ==
    (built_here /\ ss["col_v"] \notin ReservedNames) =>
        LET drawn == RenderedCells(gdf, dummy_v)
        IN  range_v = RangeOf({drawn[k].V : k \in 1..Len(drawn)})

=============================================================================
